---- MODULE Spec2Model ----
(***************************************************************************)
(* Templay: a command-line program that exchanges Spotify client           *)
(* credentials for a bearer token, runs one track search, prints the       *)
(* ranked tracks and (in cmd/web/main.go) a cadence estimate.              *)
(*                                                                         *)
(* The repository holds two entry points: cmd/web/main.go, whose main      *)
(* ends with the BPMEstimateSimple call, and a near-duplicate whose main   *)
(* ends after the search.  `variant` says which one is running.            *)
(*                                                                         *)
(* float64 quantities are modelled in fixed point, in millionths (One),    *)
(* every product and quotient rounded down to a millionth.                 *)
(***************************************************************************)
EXTENDS Integers, Sequences, FiniteSets, TLC

VARIABLES
    variant,        \* "web" (cmd/web/main.go) or "plain" (the entry point without the estimator)
    client_id,      \* os.Getenv("SPOTIFY_CLIENT_ID")
    client_secret,  \* os.Getenv("SPOTIFY_CLIENT_SECRET")
    pc,             \* position of the single thread of execution
    ctxDone,        \* the 10 s deadline of ctx has passed
    requests,       \* the requests handed to http.DefaultClient.Do, in order
    resp,           \* the *http.Response held by the running function
    openBodies,     \* indices (into requests) of response bodies not yet closed
    closedBodies,   \* indices of response bodies that were closed
    token,          \* main's token
    expiresIn,      \* main's expiresIn
    err,            \* the error value last returned to main
    items,          \* out.Tracks.Items of callSpotifySearchParsed
    i,              \* the range index of the track loop
    stdout,         \* the lines written to standard output, in order
    exitStatus,     \* process exit status, -1 while running
    height,         \* first argument of the BPMEstimateSimple call (millionths of a metre)
    speed,          \* second argument (millionths of a metre per second)
    bpm,            \* first result of the call (millionths of a step per minute)
    stepLen         \* second result of the call (millionths of a metre)

vars == <<variant, client_id, client_secret, pc, ctxDone, requests, resp,
          openBodies, closedBodies, token, expiresIn, err, items, i, stdout,
          exitStatus, height, speed, bpm, stepLen>>

netVars == <<requests, resp, openBodies, closedBodies>>
bpmVars == <<height, speed, bpm, stepLen>>

(***************************************************************************)
(* Bounds                                                                  *)
(***************************************************************************)
MaxTracks == 2        \* longest tracks.items list the search endpoint answers with
MaxArtists == 2       \* longest artists list of one track
MaxHeightSteps == 6   \* heights 0.50 m, 0.75 m, ... in steps of 0.25 m
MaxSpeedSteps == 12   \* speeds 0.0, 0.4, ... m/s in steps of 0.4 m/s

(***************************************************************************)
(* Fixed-point arithmetic standing for float64                             *)
(***************************************************************************)
One == 1000000

\* floor(a * b / One) for a, b >= 0, computed without leaving 32 bits
MulFix(a, b) ==
    LET ah == a \div 1000
        al == a % 1000
        bh == b \div 1000
        bl == b % 1000
    IN  ah * bh + ((ah * bl + al * bh) + ((al * bl) \div 1000)) \div 1000

\* floor(a * One / b) for a >= 0, 0 < b < 2^31 / 1000
DivFix(a, b) ==
    LET q0 == a \div b
        r0 == a % b
        q1 == (r0 * 1000) \div b
        r1 == (r0 * 1000) % b
        q2 == (r1 * 1000) \div b
    IN  q0 * One + q1 * 1000 + q2

\* x / d rounded to the nearest integer, ties to even (strconv's rounding)
RoundDiv(x, d) ==
    LET q == x \div d
        r == x % d
    IN  IF 2 * r > d \/ (2 * r = d /\ q % 2 = 1) THEN q + 1 ELSE q

(***************************************************************************)
(* fmt verbs                                                               *)
(***************************************************************************)
Digit(n) == CASE n = 0 -> "0" [] n = 1 -> "1" [] n = 2 -> "2" [] n = 3 -> "3"
              [] n = 4 -> "4" [] n = 5 -> "5" [] n = 6 -> "6" [] n = 7 -> "7"
              [] n = 8 -> "8" [] n = 9 -> "9"

RECURSIVE FmtD(_)
\* %d of a non-negative int: its decimal digits
FmtD(n) == IF n < 10 THEN <<Digit(n)>> ELSE FmtD(n \div 10) \o <<Digit(n % 10)>>

RECURSIVE PadLeft(_, _)
PadLeft(s, w) == IF Len(s) >= w THEN s ELSE PadLeft(<<" ">> \o s, w)

\* %2d: the digits right-aligned in a field of width 2
Fmt2D(n) == PadLeft(FmtD(n), 2)

\* %.0f of x millionths
FmtF0(x) == FmtD(RoundDiv(x, One))

\* %.2f of x millionths
FmtF2(x) ==
    LET c == RoundDiv(x, 10000)
    IN  FmtD(c \div 100) \o <<".", Digit((c \div 10) % 10), Digit(c % 10)>>

(***************************************************************************)
(* BPMEstimateSimple                                                       *)
(***************************************************************************)
StrideRatio == 414000       \* 0.414
RefSpeed == 2200000         \* 2.2 m/s
ScaleSlope == 250000        \* 0.25
ScaleSpan == 1800000        \* 1.8 m/s
ScaleCap == 1250000         \* 1.25
MaxStrideRatio == 550000    \* 0.55
MainHeight == 1750000       \* 1.75, the height main passes
MainSpeed == 2682240        \* 2.68224, the speed main passes

\* ScaleFactor without the cap at 1.25
ScaleFactorNoCap(s) == One + MulFix(ScaleSlope, DivFix(s - RefSpeed, ScaleSpan))

\* the scale computed inside `if speed > 2.2`
ScaleFactor(s) ==
    LET scale == One + MulFix(ScaleSlope, DivFix(s - RefSpeed, ScaleSpan))
    IN  IF scale > ScaleCap THEN ScaleCap ELSE scale

\* ScaledStride without the speed scaling
ScaledStrideNoScale(h, s) == MulFix(StrideRatio, h)

\* L after the `if speed > 2.2` block
ScaledStride(h, s) ==
    LET L == MulFix(StrideRatio, h)
    IN  IF s > RefSpeed THEN MulFix(L, ScaleFactor(s)) ELSE L

\* the stride-length cap `if L > maxL`
ClampStride(L, h) ==
    LET maxL == MulFix(MaxStrideRatio, h)
    IN  IF L > maxL THEN maxL ELSE L

BPMEstimateSimple(h, s) ==
    LET L == ClampStride(ScaledStride(h, s), h)
    IN  [bpm |-> DivFix(s, L) * 60, L |-> L]

(***************************************************************************)
(* Values: errors, response bodies, responses, output lines                *)
(***************************************************************************)
\* A response body: whether it is a JSON document the decoder accepts, and
\* the document (a function from the field names present to their values).
NoBody == [wellFormed |-> FALSE, doc |-> <<>>]

NilErr == [msg |-> "<nil>", status |-> "", body |-> NoBody]

\* the error of http.DefaultClient.Do (DNS, refused connection, deadline)
TransportErr == [msg |-> "transport", status |-> "", body |-> NoBody]

\* the error of (*json.Decoder).Decode
DecodeErr == [msg |-> "decode", status |-> "", body |-> NoBody]

\* fmt.Errorf("status %s: %s", resp.Status, buf.String())
TokenStatusErr(r) == [msg |-> "status %s: %s", status |-> r.status, body |-> r.body]

\* fmt.Errorf("search failed: %s: %s", resp.Status, buf.String())
SearchStatusErr(r) == [msg |-> "search failed: %s: %s", status |-> r.status, body |-> r.body]

NoResp == [code |-> 0, status |-> "", body |-> NoBody]

\* resp.Status for the status codes the model's servers answer with
StatusText(code) ==
    CASE code = 200 -> "200 OK"
      [] code = 201 -> "201 Created"
      [] code = 204 -> "204 No Content"
      [] code = 401 -> "401 Unauthorized"
      [] code = 500 -> "500 Internal Server Error"

MalformedBody == [wellFormed |-> FALSE, doc |-> <<>>]
ErrorBody == [wellFormed |-> TRUE, doc |-> [error |-> "invalid_client"]]

TokenCodes == {200, 201, 204, 401, 500}

TokenBodies ==
    { [wellFormed |-> TRUE,
       doc |-> [access_token |-> "BQC4", expires_in |-> 3600, token_type |-> "Bearer"]],
      [wellFormed |-> TRUE, doc |-> [expires_in |-> 3600, token_type |-> "Bearer"]],
      ErrorBody,
      MalformedBody }

TokenResponses ==
    { [code |-> c, status |-> StatusText(c), body |-> b] : c \in TokenCodes, b \in TokenBodies }

SeqsUpTo(S, n) == UNION { [1..k -> S] : k \in 0..n }

ArtistNames == {"Daft Punk", "Pharrell Williams"}
TrackNames == {"One More Time", "Get Lucky"}

Artists == { [name |-> a] : a \in ArtistNames }
Tracks == { [name |-> t, artists |-> as] : t \in TrackNames, as \in SeqsUpTo(Artists, MaxArtists) }

SearchCodes == {200, 204, 401, 500}

SearchBodies ==
    { [wellFormed |-> TRUE, doc |-> [tracks |-> [items |-> its]]] : its \in SeqsUpTo(Tracks, MaxTracks) }
    \cup { [wellFormed |-> TRUE, doc |-> [tracks |-> <<>>]],
           [wellFormed |-> TRUE, doc |-> <<>>],
           ErrorBody,
           MalformedBody }

\* a 2xx answer carries any of the bodies, an error answer an error document
\* or something that is not JSON
SearchResponses ==
    { [code |-> c, status |-> StatusText(c), body |-> b] :
        c \in {c2 \in SearchCodes : c2 \div 100 = 2}, b \in SearchBodies }
    \cup { [code |-> c, status |-> StatusText(c), body |-> b] :
        c \in {c2 \in SearchCodes : c2 \div 100 # 2}, b \in {ErrorBody, MalformedBody} }

\* A line of standard output: its text, cut into the pieces the format
\* produces, and the error value a Println was given (NilErr when none).
Line(text) == [text |-> text, arg |-> NilErr]

MissingLine == Line(<<"Missing SPOTIFY_CLIENT_ID or SPOTIFY_CLIENT_SECRET in env">>)
TokenFailedLine(e) == [text |-> <<"Token fetch failed:", " ">>, arg |-> e]
TokenLengthLine(t) == Line(<<"token length: ">> \o FmtD(Len(t)))
ExpiresLine(n) == Line(<<"expires_in (sec): ">> \o FmtD(n))
SearchFailedLine(e) == [text |-> <<"API call failed:", " ">>, arg |-> e]
NoTracksLine == Line(<<"No tracks found.">>)
CadenceLine(b, l) ==
    Line(<<"Estimated cadence: ">> \o FmtF0(b) \o <<" spm (step length: ">> \o FmtF2(l) \o <<" m)">>)

(***************************************************************************)
(* json decoding into the fixed-shape structs                              *)
(***************************************************************************)
\* a string field of a struct: the document's value, "" when the key is absent
StrField(doc, key) == IF key \in DOMAIN doc THEN doc[key] ELSE ""

\* an int field of a struct: the document's value, 0 when the key is absent
IntField(doc, key) == IF key \in DOMAIN doc THEN doc[key] ELSE 0

\* out.Tracks.Items: nil (length 0) when "tracks" or "items" is absent
ItemsOf(doc) ==
    IF "tracks" \in DOMAIN doc /\ "items" \in DOMAIN doc.tracks
    THEN doc.tracks.items
    ELSE <<>>

(***************************************************************************)
(* Requests                                                                *)
(***************************************************************************)
\* base64.StdEncoding.EncodeToString of the credentials the model runs with
Base64Std(s) ==
    CASE s = "id:secret" -> "aWQ6c2VjcmV0"
      [] s = "id:" -> "aWQ6"
      [] s = ":secret" -> "OnNlY3JldA=="
      [] s = ":" -> "Og=="

TokenRequest(id, secret) ==
    [method |-> "POST",
     url |-> "https://accounts.spotify.com/api/token",
     auth |-> <<"Basic ", Base64Std(id \o ":" \o secret)>>,
     body |-> "grant_type=client_credentials"]

\* term "Daft Punk", limit 5; url.Values.Encode sorts the keys
SearchRequest(tok) ==
    [method |-> "GET",
     url |-> "https://api.spotify.com/v1/search?limit=5&q=Daft+Punk&type=track",
     auth |-> <<"Bearer ", tok>>,
     body |-> ""]

(***************************************************************************)
(* Initial state: the process starts main with some environment            *)
(***************************************************************************)
Init ==
    /\ variant \in {"web", "plain"}
    /\ client_id \in {"", "id"}
    /\ client_secret \in {"", "secret"}
    /\ pc = "main_env"
    /\ ctxDone = FALSE
    /\ requests = <<>>
    /\ resp = NoResp
    /\ openBodies = {}
    /\ closedBodies = {}
    /\ token = ""
    /\ expiresIn = 0
    /\ err = NilErr
    /\ items = <<>>
    /\ i = 0
    /\ stdout = <<>>
    /\ exitStatus = -1
    /\ height = 0
    /\ speed = 0
    /\ bpm = 0
    /\ stepLen = 0

(***************************************************************************)
(* main, up to the token exchange                                          *)
(***************************************************************************)
\* MissingEnv with && in place of ||
MissingEnvBoth(id, secret) == id = "" /\ secret = ""

\* client_id == "" || client_secret == ""
MissingEnv(id, secret) == id = "" \/ secret = ""

\* main: read the environment, stop when a credential is missing, else
\* create ctx and call getAccessToken
CheckEnv ==
    /\ pc = "main_env"
    /\ IF MissingEnv(client_id, client_secret)
       THEN /\ stdout' = Append(stdout, MissingLine)
            /\ pc' = "done"
            /\ exitStatus' = 0
       ELSE /\ pc' = "tok_do"
            /\ UNCHANGED <<stdout, exitStatus>>
    /\ UNCHANGED <<variant, client_id, client_secret, ctxDone, token, expiresIn,
                   err, items, i>>
    /\ UNCHANGED netVars
    /\ UNCHANGED bpmVars

\* the deadline of context.WithTimeout has passed by the time a request is
\* about to be handed to the transport (the only place the code observes it)
DeadlineExceeded ==
    /\ pc \in {"tok_do", "srch_do"}
    /\ ~ctxDone
    /\ ctxDone' = TRUE
    /\ UNCHANGED <<variant, client_id, client_secret, pc, token, expiresIn, err,
                   items, i, stdout, exitStatus>>
    /\ UNCHANGED netVars
    /\ UNCHANGED bpmVars

(***************************************************************************)
(* getAccessToken                                                          *)
(***************************************************************************)
\* build the POST and hand it to http.DefaultClient.Do: the transport fails
\* (always so once the deadline has passed) or a response arrives
TokenDo ==
    /\ pc = "tok_do"
    /\ requests' = Append(requests, TokenRequest(client_id, client_secret))
    /\ \/ /\ resp' = NoResp
          /\ token' = ""
          /\ expiresIn' = 0
          /\ err' = TransportErr
          /\ pc' = "main_tok"
          /\ UNCHANGED openBodies
       \/ /\ ~ctxDone
          /\ \E r \in TokenResponses : resp' = r
          /\ openBodies' = openBodies \cup {Len(requests')}
          /\ pc' = "tok_status"
          /\ UNCHANGED <<token, expiresIn, err>>
    /\ UNCHANGED <<variant, client_id, client_secret, ctxDone, closedBodies, items,
                   i, stdout, exitStatus>>
    /\ UNCHANGED bpmVars

\* TokenStatusBad accepting every 2xx status, as the search does
TokenStatusBad2xx(code) == code \div 100 # 2

\* resp.StatusCode != http.StatusOK
TokenStatusBad(code) == code # 200

\* CloseBody with the defer statement left out
CloseBodyMissing(open, n) == open

\* the deferred resp.Body.Close() of the function that holds response n
CloseBody(open, n) == open \ {n}

\* the status check: an error return (the deferred Close runs) or on to decoding
TokenStatus ==
    /\ pc = "tok_status"
    /\ IF TokenStatusBad(resp.code)
       THEN /\ token' = ""
            /\ expiresIn' = 0
            /\ err' = TokenStatusErr(resp)
            /\ openBodies' = CloseBody(openBodies, Len(requests))
            /\ closedBodies' = closedBodies \cup (openBodies \ openBodies')
            /\ resp' = NoResp
            /\ pc' = "main_tok"
       ELSE /\ pc' = "tok_decode"
            /\ UNCHANGED <<token, expiresIn, err, openBodies, closedBodies, resp>>
    /\ UNCHANGED <<variant, client_id, client_secret, ctxDone, requests, items, i,
                   stdout, exitStatus>>
    /\ UNCHANGED bpmVars

\* decode the payload and return; the deferred Close runs on both returns
TokenDecode ==
    /\ pc = "tok_decode"
    /\ IF ~resp.body.wellFormed
       THEN /\ token' = ""
            /\ expiresIn' = 0
            /\ err' = DecodeErr
       ELSE /\ token' = StrField(resp.body.doc, "access_token")
            /\ expiresIn' = IntField(resp.body.doc, "expires_in")
            /\ err' = NilErr
    /\ openBodies' = CloseBody(openBodies, Len(requests))
    /\ closedBodies' = closedBodies \cup (openBodies \ openBodies')
    /\ resp' = NoResp
    /\ pc' = "main_tok"
    /\ UNCHANGED <<variant, client_id, client_secret, ctxDone, requests, items, i,
                   stdout, exitStatus>>
    /\ UNCHANGED bpmVars

\* MainAfterToken without the return in the error branch
MainAfterTokenNoReturn ==
    /\ pc = "main_tok"
    /\ stdout' = (IF err # NilErr THEN Append(stdout, TokenFailedLine(err)) ELSE stdout)
                     \o <<TokenLengthLine(token), ExpiresLine(expiresIn)>>
    /\ pc' = "srch_do"
    /\ UNCHANGED <<variant, client_id, client_secret, ctxDone, token, expiresIn,
                   err, items, i, exitStatus>>
    /\ UNCHANGED netVars
    /\ UNCHANGED bpmVars

\* MainAfterToken calling getAccessToken again after a failure
MainAfterTokenRetry ==
    /\ pc = "main_tok"
    /\ IF err # NilErr
       THEN /\ stdout' = Append(stdout, TokenFailedLine(err))
            /\ pc' = "tok_do"
       ELSE /\ stdout' = stdout \o <<TokenLengthLine(token), ExpiresLine(expiresIn)>>
            /\ pc' = "srch_do"
    /\ UNCHANGED <<variant, client_id, client_secret, ctxDone, token, expiresIn,
                   err, items, i, exitStatus>>
    /\ UNCHANGED netVars
    /\ UNCHANGED bpmVars

\* main after getAccessToken returned: stop on an error, else print the
\* token length and expiry and call callSpotifySearchParsed
MainAfterToken ==
    /\ pc = "main_tok"
    /\ IF err # NilErr
       THEN /\ stdout' = Append(stdout, TokenFailedLine(err))
            /\ pc' = "done"
            /\ exitStatus' = 0
       ELSE /\ stdout' = stdout \o <<TokenLengthLine(token), ExpiresLine(expiresIn)>>
            /\ pc' = "srch_do"
            /\ UNCHANGED exitStatus
    /\ UNCHANGED <<variant, client_id, client_secret, ctxDone, token, expiresIn,
                   err, items, i>>
    /\ UNCHANGED netVars
    /\ UNCHANGED bpmVars

(***************************************************************************)
(* callSpotifySearchParsed                                                 *)
(***************************************************************************)
\* build the GET and hand it to http.DefaultClient.Do
SearchDo ==
    /\ pc = "srch_do"
    /\ requests' = Append(requests, SearchRequest(token))
    /\ \/ /\ resp' = NoResp
          /\ err' = TransportErr
          /\ pc' = "main_srch"
          /\ UNCHANGED openBodies
       \/ /\ ~ctxDone
          /\ \E r \in SearchResponses : resp' = r
          /\ openBodies' = openBodies \cup {Len(requests')}
          /\ pc' = "srch_status"
          /\ UNCHANGED err
    /\ UNCHANGED <<variant, client_id, client_secret, ctxDone, closedBodies, token,
                   expiresIn, items, i, stdout, exitStatus>>
    /\ UNCHANGED bpmVars

\* resp.StatusCode/100 != 2
SearchStatusBad(code) == code \div 100 # 2

\* the status check: an error return (the deferred Close runs) or on to decoding
SearchStatus ==
    /\ pc = "srch_status"
    /\ IF SearchStatusBad(resp.code)
       THEN /\ err' = SearchStatusErr(resp)
            /\ openBodies' = CloseBody(openBodies, Len(requests))
            /\ closedBodies' = closedBodies \cup (openBodies \ openBodies')
            /\ resp' = NoResp
            /\ pc' = "main_srch"
       ELSE /\ pc' = "srch_decode"
            /\ UNCHANGED <<err, openBodies, closedBodies, resp>>
    /\ UNCHANGED <<variant, client_id, client_secret, ctxDone, requests, token,
                   expiresIn, items, i, stdout, exitStatus>>
    /\ UNCHANGED bpmVars

\* NoTracks with the emptiness check left out
NoTracksUnchecked(its) == FALSE

\* len(out.Tracks.Items) == 0
NoTracks(its) == Len(its) = 0

\* decode the body; return the decode error, or print the notice and return
\* nil when no track came back, else enter the loop over the tracks
SearchDecode ==
    /\ pc = "srch_decode"
    /\ IF ~resp.body.wellFormed
       THEN /\ err' = DecodeErr
            /\ openBodies' = CloseBody(openBodies, Len(requests))
            /\ closedBodies' = closedBodies \cup (openBodies \ openBodies')
            /\ resp' = NoResp
            /\ pc' = "main_srch"
            /\ UNCHANGED <<items, i, stdout>>
       ELSE IF NoTracks(ItemsOf(resp.body.doc))
       THEN /\ stdout' = Append(stdout, NoTracksLine)
            /\ err' = NilErr
            /\ openBodies' = CloseBody(openBodies, Len(requests))
            /\ closedBodies' = closedBodies \cup (openBodies \ openBodies')
            /\ resp' = NoResp
            /\ pc' = "main_srch"
            /\ UNCHANGED <<items, i>>
       ELSE /\ items' = ItemsOf(resp.body.doc)
            /\ i' = 0
            /\ pc' = "srch_loop"
            /\ UNCHANGED <<err, openBodies, closedBodies, resp, stdout>>
    /\ UNCHANGED <<variant, client_id, client_secret, ctxDone, requests, token,
                   expiresIn, exitStatus>>
    /\ UNCHANGED bpmVars

\* ArtistOf taking the last artist
ArtistOfLast(t) == IF Len(t.artists) > 0 THEN t.artists[Len(t.artists)].name ELSE "Unknown"

\* the artist shown for a track: its first artist, "Unknown" when it has none
ArtistOf(t) == IF Len(t.artists) > 0 THEN t.artists[1].name ELSE "Unknown"

\* the separator of the track line, " " U+2014 (em dash) " "
EmDashSep == " -- "

\* fmt.Printf("%2d) %s <em dash> %s\n", i+1, artist, t.Name) with Go's 0-based i
TrackLine(idx, t) == Line(Fmt2D(idx + 1) \o <<") ", ArtistOf(t), EmDashSep, t.name>>)

\* one iteration of the range loop
SearchLoop ==
    /\ pc = "srch_loop"
    /\ i < Len(items)
    /\ stdout' = Append(stdout, TrackLine(i, items[i + 1]))
    /\ i' = i + 1
    /\ UNCHANGED <<variant, client_id, client_secret, pc, ctxDone, token, expiresIn,
                   err, items, exitStatus>>
    /\ UNCHANGED netVars
    /\ UNCHANGED bpmVars

\* the loop is over: return nil, the deferred Close runs
SearchReturn ==
    /\ pc = "srch_loop"
    /\ i >= Len(items)
    /\ err' = NilErr
    /\ openBodies' = CloseBody(openBodies, Len(requests))
    /\ closedBodies' = closedBodies \cup (openBodies \ openBodies')
    /\ resp' = NoResp
    /\ pc' = "main_srch"
    /\ UNCHANGED <<variant, client_id, client_secret, ctxDone, requests, token,
                   expiresIn, items, i, stdout, exitStatus>>
    /\ UNCHANGED bpmVars

(***************************************************************************)
(* main, after the search                                                  *)
(***************************************************************************)
\* where main goes once the search step is over: cmd/web/main.go goes on to
\* the cadence estimate, the other entry point ends
AfterSearchPc(v) == IF v = "web" THEN "main_cadence" ELSE "done"

\* MainAfterSearch returning from main in the error branch
MainAfterSearchReturn ==
    /\ pc = "main_srch"
    /\ stdout' = IF err # NilErr THEN Append(stdout, SearchFailedLine(err)) ELSE stdout
    /\ pc' = IF err # NilErr THEN "done" ELSE AfterSearchPc(variant)
    /\ exitStatus' = IF pc' = "done" THEN 0 ELSE exitStatus
    /\ UNCHANGED <<variant, client_id, client_secret, ctxDone, token, expiresIn,
                   err, items, i>>
    /\ UNCHANGED netVars
    /\ UNCHANGED bpmVars

\* log a search error; it does not end main
MainAfterSearch ==
    /\ pc = "main_srch"
    /\ stdout' = IF err # NilErr THEN Append(stdout, SearchFailedLine(err)) ELSE stdout
    /\ pc' = AfterSearchPc(variant)
    /\ exitStatus' = IF pc' = "done" THEN 0 ELSE exitStatus
    /\ UNCHANGED <<variant, client_id, client_secret, ctxDone, token, expiresIn,
                   err, items, i>>
    /\ UNCHANGED netVars
    /\ UNCHANGED bpmVars

\* bpm, stepLen := BPMEstimateSimple(1.75, 2.68224), print them, main ends
MainCadence ==
    /\ pc = "main_cadence"
    /\ height' = MainHeight
    /\ speed' = MainSpeed
    /\ bpm' = BPMEstimateSimple(MainHeight, MainSpeed).bpm
    /\ stepLen' = BPMEstimateSimple(MainHeight, MainSpeed).L
    /\ stdout' = Append(stdout, CadenceLine(bpm', stepLen'))
    /\ pc' = "done"
    /\ exitStatus' = 0
    /\ UNCHANGED <<variant, client_id, client_secret, ctxDone, token, expiresIn,
                   err, items, i>>
    /\ UNCHANGED netVars

Next ==
    \/ CheckEnv
    \/ DeadlineExceeded
    \/ TokenDo
    \/ TokenStatus
    \/ TokenDecode
    \/ MainAfterToken
    \/ SearchDo
    \/ SearchStatus
    \/ SearchDecode
    \/ SearchLoop
    \/ SearchReturn
    \/ MainAfterSearch
    \/ MainCadence

Spec == Init /\ [][Next]_vars

(***************************************************************************)
(* BPMEstimateSimple on its own: one call with arguments from a grid       *)
(***************************************************************************)
Heights == { 500000 + k * 250000 : k \in 0..MaxHeightSteps }
Speeds == { k * 400000 : k \in 0..MaxSpeedSteps } \cup {RefSpeed, RefSpeed + 1, MainSpeed}

InitBPM ==
    /\ variant = "web"
    /\ client_id = "id"
    /\ client_secret = "secret"
    /\ pc = "bpm_call"
    /\ ctxDone = FALSE
    /\ requests = <<>>
    /\ resp = NoResp
    /\ openBodies = {}
    /\ closedBodies = {}
    /\ token = ""
    /\ expiresIn = 0
    /\ err = NilErr
    /\ items = <<>>
    /\ i = 0
    /\ stdout = <<>>
    /\ exitStatus = -1
    /\ height \in Heights
    /\ speed \in Speeds
    /\ bpm = 0
    /\ stepLen = 0

\* the call returns
Estimate ==
    /\ pc = "bpm_call"
    /\ bpm' = BPMEstimateSimple(height, speed).bpm
    /\ stepLen' = BPMEstimateSimple(height, speed).L
    /\ pc' = "bpm_ret"
    /\ UNCHANGED <<variant, client_id, client_secret, ctxDone, token, expiresIn,
                   err, items, i, stdout, exitStatus, height, speed>>
    /\ UNCHANGED netVars

NextBPM == Estimate

SpecBPM == InitBPM /\ [][NextBPM]_vars

(***************************************************************************)
(* Properties                                                              *)
(***************************************************************************)
Last(q) == q[Len(q)]

IsCadenceLine(l) == l.text[1] = "Estimated cadence: "
IsTrackLine(l) == \E k \in 1..Len(l.text) : l.text[k] = ") "
IsTokenInfoLine(l) == l.text[1] \in {"token length: ", "expires_in (sec): "}

\* C1: when SPOTIFY_CLIENT_ID or SPOTIFY_CLIENT_SECRET is empty, main
\* prints the missing-vars message and ends with status 0; it sends no
\* request and prints nothing else.
C1_MissingEnvNoNetwork ==
    (pc # "main_env" /\ (client_id = "" \/ client_secret = ""))
        => /\ pc = "done"
           /\ exitStatus = 0
           /\ requests = <<>>
           /\ Len(stdout) = 1
           /\ stdout[1].text = <<"Missing SPOTIFY_CLIENT_ID or SPOTIFY_CLIENT_SECRET in env">>

C1_Witness ==
    /\ pc = "done"
    /\ client_id = "id"
    /\ client_secret = ""
    /\ stdout = <<MissingLine>>

\* C2: when getAccessToken returns an error, the only thing main does is
\* print the token-failure message and end: the token request stays the
\* only request, the message stays the only line, and nothing follows the end.
C2_TokenFailureAborts ==
    [][ /\ (pc = "main_tok" /\ err # NilErr)
            => /\ stdout = <<>>
               /\ Len(requests) = 1
               /\ requests' = requests
               /\ \/ pc' = "main_tok" /\ stdout' = stdout /\ err' = err
                  \/ /\ pc' = "done"
                     /\ stdout' = <<[text |-> <<"Token fetch failed:", " ">>, arg |-> err]>>
        /\ pc # "done" ]_vars

C2_Witness ==
    /\ pc = "done"
    /\ Len(requests) = 1
    /\ Len(stdout) = 1
    /\ stdout[1].text[1] = "Token fetch failed:"
    /\ stdout[1].arg = DecodeErr

\* C3: in cmd/web/main.go, once the token exchange has succeeded, no cadence
\* line is printed before the search step is over, and when main has ended
\* exactly one cadence line was printed, as the last line, whether the
\* search returned nil or an error.
C3_CadenceAfterSearch ==
    (variant = "web" /\ (pc = "srch_do" \/ Len(requests) = 2))
        => /\ Cardinality({k \in DOMAIN stdout : IsCadenceLine(stdout[k])})
                = (IF pc = "done" THEN 1 ELSE 0)
           /\ pc = "done" => IsCadenceLine(Last(stdout))

C3_Witness ==
    /\ variant = "web"
    /\ pc = "done"
    /\ Len(stdout) = 4
    /\ stdout[3].text[1] = "API call failed:"
    /\ stdout[3].arg.status = "500 Internal Server Error"
    /\ IsCadenceLine(stdout[4])

\* C4: a token response whose status code is not 200 (201 and 204 included)
\* makes getAccessToken return "", 0 and an error holding the status text
\* and the body; only a 200 response reaches the JSON decoding.
C4_TokenNon200Error ==
    [][ /\ (pc = "tok_status" /\ resp.code # 200)
            => \/ pc' = "tok_status"
               \/ /\ pc' = "main_tok"
                  /\ token' = ""
                  /\ expiresIn' = 0
                  /\ err' # NilErr
                  /\ err'.status = resp.status
                  /\ err'.body = resp.body
        /\ pc' = "tok_decode" => resp'.code = 200 ]_vars

C4_Witness ==
    /\ pc = "main_tok"
    /\ err.status = "201 Created"
    /\ err.body.wellFormed
    /\ "access_token" \in DOMAIN err.body.doc
    /\ token = ""

\* the tracks.items list of a document is empty or absent
EmptyOrAbsentItems(doc) ==
    \/ "tracks" \notin DOMAIN doc
    \/ "items" \notin DOMAIN doc.tracks
    \/ doc.tracks.items = <<>>

\* C5: a 2xx search response whose JSON body has an empty or absent
\* tracks.items list makes callSpotifySearchParsed print exactly
\* "No tracks found.", no track line, and return nil.
C5_EmptyResult ==
    [][ (pc = "srch_decode" /\ resp.body.wellFormed /\ EmptyOrAbsentItems(resp.body.doc))
            => \/ pc' = "srch_decode"
               \/ /\ pc' = "main_srch"
                  /\ err' = NilErr
                  /\ stdout' = Append(stdout, [text |-> <<"No tracks found.">>, arg |-> NilErr])
                  /\ \A k \in DOMAIN stdout' : ~IsTrackLine(stdout'[k]) ]_vars

C5_Witness ==
    /\ pc = "main_srch"
    /\ err = NilErr
    /\ Len(requests) = 2
    /\ Last(stdout) = NoTracksLine
    /\ Len(stdout) = 3

\* the track lines printed so far
TrackLinesPrinted == SelectSeq(stdout, IsTrackLine)

\* the artist a track line shows: the first listed one, "Unknown" when none
FirstArtistOrUnknown(t) == IF t.artists = <<>> THEN "Unknown" ELSE Head(t.artists).name

\* the search loop has started on a non-empty list
TracksBeingPrinted ==
    \/ pc = "srch_loop"
    \/ pc \in {"main_srch", "main_cadence", "done"} /\ items # <<>>

\* callSpotifySearchParsed has returned from its loop
TracksAllPrinted == pc \in {"main_srch", "main_cadence", "done"} /\ items # <<>>

\* C6 as stated: the k-th track line is "<k>) <artist> -- <track>", the
\* rank being the bare decimal number.
C6_TrackLinesBareRank ==
    TracksBeingPrinted
        => /\ TrackLinesPrinted =
                [k \in 1..i |->
                    [text |-> FmtD(k) \o <<") ", FirstArtistOrUnknown(items[k]), EmDashSep, items[k].name>>,
                     arg |-> NilErr]]
           /\ TracksAllPrinted => i = Len(items)

\* C6 (amended): for a non-empty track list, one line per track in upstream
\* order, the k-th being the rank k right-aligned in a field of width 2 (a
\* leading space for ranks below 10), then ") <artist> -- <track>", with the
\* first listed artist or "Unknown" when the artist list is empty.
C6_TrackLines ==
    TracksBeingPrinted
        => /\ TrackLinesPrinted =
                [k \in 1..i |->
                    [text |-> (IF k < 10 THEN <<" ">> ELSE <<>>) \o FmtD(k)
                                \o <<") ", FirstArtistOrUnknown(items[k]), EmDashSep, items[k].name>>,
                     arg |-> NilErr]]
           /\ TracksAllPrinted => i = Len(items)

C6_Witness ==
    /\ pc = "main_srch"
    /\ Len(items) = 2
    /\ items[1].artists = <<>>
    /\ Len(items[2].artists) = 2
    /\ items[2].artists[1].name # items[2].artists[2].name
    /\ Len(TrackLinesPrinted) = 2
    /\ TrackLinesPrinted[1].text = <<" ", "1", ") ", "Unknown", EmDashSep, items[1].name>>

\* main has made its BPMEstimateSimple(1.75, 2.68224) call
MainCallMade == pc = "done" /\ height = 1750000 /\ speed = 2682240

\* C7 as stated: the call made by main yields a scale factor of about
\* 1.058, a stride of about 0.475 m and a cadence of about 339 spm.
C7_MainCallAsStated ==
    MainCallMade
        => /\ RoundDiv(ScaleFactor(speed), 1000) = 1058
           /\ RoundDiv(stepLen, 1000) = 475
           /\ RoundDiv(bpm, One) = 339

\* C7 (amended): the call made by main yields a scale factor of about
\* 1.067, a stride of about 0.773 m and a cadence of about 208 spm, printed
\* as "Estimated cadence: 208 spm (step length: 0.77 m)".
C7_MainCall ==
    MainCallMade
        => /\ RoundDiv(ScaleFactor(speed), 1000) = 1067
           /\ RoundDiv(stepLen, 1000) = 773
           /\ RoundDiv(bpm, One) = 208
           /\ Last(stdout).text = <<"Estimated cadence: ", "2", "0", "8",
                                    " spm (step length: ", "0", ".", "7", "7", " m)">>

C7_Witness ==
    /\ MainCallMade
    /\ variant = "web"
    /\ IsCadenceLine(Last(stdout))
    /\ stepLen > 0

\* C8: for speed <= 2.2 the stride is exactly 0.414 * height, below the
\* 0.55 * height clamp, and the cadence is speed / (0.414 * height) * 60;
\* for speed > 2.2 the scale factor is non-decreasing in speed, at most
\* 1.25, and the stride is at most 0.55 * height.
C8_StrideAndScale ==
    pc = "bpm_ret"
        => /\ speed <= 2200000
                => /\ stepLen = MulFix(414000, height)
                   /\ stepLen < MulFix(550000, height)
                   /\ bpm = DivFix(speed, MulFix(414000, height)) * 60
           /\ speed > 2200000
                => /\ ScaleFactor(speed) <= 1250000
                   /\ \A s2 \in Speeds :
                        (2200000 < s2 /\ s2 <= speed) => ScaleFactor(s2) <= ScaleFactor(speed)
                   /\ stepLen = MulFix(MulFix(414000, height), ScaleFactor(speed))
                   /\ stepLen <= MulFix(550000, height)

C8_Witness ==
    /\ pc = "bpm_ret"
    /\ height = 1750000
    /\ speed = 2200000
    /\ stepLen = 724500

\* control is in main, outside getAccessToken and callSpotifySearchParsed
ReturnedToMain == pc \in {"main_tok", "srch_do", "main_srch", "main_cadence", "done"}

\* C9: a response body is open only while the function that obtained it
\* runs; once that function has returned, by whatever path, the body is
\* closed, and at the end of main none is open.  A request whose transport
\* failed has no body and none is closed for it.
C9_BodiesClosed ==
    /\ openBodies \cap closedBodies = {}
    /\ pc \in {"tok_status", "tok_decode", "srch_status", "srch_decode", "srch_loop"}
        => openBodies = {Len(requests)}
    /\ (pc \in {"main_env", "tok_do"} \/ ReturnedToMain) => openBodies = {}
    /\ closedBodies =
        { n \in 1..Len(requests) :
            n < Len(requests) \/ (ReturnedToMain /\ err # TransportErr) }

C9_Witness ==
    /\ pc = "done"
    /\ Len(requests) = 2
    /\ err.msg = "search failed: %s: %s"
    /\ closedBodies = {1, 2}
    /\ openBodies = {}

IsTokenRequest(r) == r.method = "POST" /\ r.url = "https://accounts.spotify.com/api/token"
IsSearchRequest(r) ==
    r.method = "GET" /\ r.url = "https://api.spotify.com/v1/search?limit=5&q=Daft+Punk&type=track"

\* C10: at most one token request and one search request are sent; the
\* search request is sent only after getAccessToken returned without error,
\* and its Authorization header is "Bearer " followed by the access_token
\* of the token response ("" when a 200 response lacks the field).
C10_NoRetryAndOrder ==
    [][ /\ Cardinality({n \in DOMAIN requests' : IsTokenRequest(requests'[n])}) <= 1
        /\ Cardinality({n \in DOMAIN requests' : IsSearchRequest(requests'[n])}) <= 1
        /\ \A n \in DOMAIN requests' : IsTokenRequest(requests'[n]) \/ IsSearchRequest(requests'[n])
        /\ (pc = "tok_decode" /\ pc' = "main_tok" /\ err' = NilErr)
            => token' = (IF "access_token" \in DOMAIN resp.body.doc
                         THEN resp.body.doc.access_token ELSE "")
        /\ pc \notin {"tok_do", "tok_status", "tok_decode"} => token' = token
        /\ (Len(requests') > Len(requests) /\ IsSearchRequest(Last(requests')))
            => /\ pc = "srch_do"
               /\ err = NilErr
               /\ IsTokenRequest(requests[1])
               /\ closedBodies = {1}
               /\ Last(requests').auth = <<"Bearer ", token>> ]_vars

C10_Witness ==
    /\ Len(requests) = 2
    /\ IsTokenRequest(requests[1])
    /\ IsSearchRequest(requests[2])
    /\ requests[2].auth = <<"Bearer ", "">>
    /\ stdout[1].text = <<"token length: ", "0">>

====
